---- MODULE Spec2Model ----
(***************************************************************************)
(* Particles::update of particle_life_3d (src/src/lib.rs): the counting-   *)
(* sort spatial index (count, prefix sum, scatter), the buffer swap, and   *)
(* the per-particle force and integration pass, with every rayon work item *)
(* as its own step.                                                        *)
(*                                                                         *)
(* f32 values are fixed-point integers: the integer n stands for n/Scale.  *)
(* Vectors are triples <<x, y, z>>.  Vec<T> values are functions on        *)
(* 0..len-1, so that the indices stored in particle_indices are the        *)
(* source's own zero-based indices.                                        *)
(***************************************************************************)
EXTENDS Integers, Sequences, FiniteSets, TLC

(* ---------------------------- bounds ----------------------------------- *)

\* largest number of particles in current_particles
MaxN == 2

\* largest number of update calls in one behaviour
MaxTicks == 2

(* ------------------------ f32 as fixed point --------------------------- *)

\* the integer that stands for the f32 value 1.0
Scale == 8

Abs(a) == IF a < 0 THEN -a ELSE a

\* quotient rounded toward zero (f32 -> isize `as` cast; rounding of a
\* fixed-point product or quotient)
TruncDiv(a, b) ==
  IF (a >= 0) = (b > 0) THEN Abs(a) \div Abs(b) ELSE -(Abs(a) \div Abs(b))

\* f32 * f32
FMul(a, b) == TruncDiv(a * b, Scale)

\* f32 / f32
FDiv(a, b) == TruncDiv(a * Scale, b)

\* f32::min, f32::max
Min(a, b) == IF a < b THEN a ELSE b

Max(a, b) == IF a > b THEN a ELSE b

\* f32::sqrt of a value given in units of 1/Scale^2, result in units of 1/Scale
Sqrt(s) == CHOOSE d \in 0..(s + 1) : d * d <= s /\ s < (d + 1) * (d + 1)

(* ------------------------- cgmath::Vector3 ----------------------------- *)

Zero3 == <<0, 0, 0>>

VAdd(u, v) == <<u[1] + v[1], u[2] + v[2], u[3] + v[3]>>

VSub(u, v) == <<u[1] - v[1], u[2] - v[2], u[3] - v[3]>>

\* Vector3 * f32
VMul(u, s) == <<FMul(u[1], s), FMul(u[2], s), FMul(u[3], s)>>

\* Vector3 / f32
VDiv(u, s) == <<FDiv(u[1], s), FDiv(u[2], s), FDiv(u[3], s)>>

\* Vector3<isize or i32> * world_size: an integer count of world sizes
VTimes(u, s) == <<u[1] * s, u[2] * s, u[3] * s>>

\* InnerSpace::magnitude2, in units of 1/Scale^2
magnitude2(u) == u[1] * u[1] + u[2] * u[2] + u[3] * u[3]

\* length of a Vec modelled as a function on 0..len-1
Length(v) == Cardinality(DOMAIN v)

EmptyVec == [k \in {} |-> 0]

(* ------------------------------ hash ----------------------------------- *)

\* the table below covers the cells with every coordinate in -HashRadius..HashRadius
HashRadius == 8

\* every table length the model uses divides HashMod, so that
\* (h % HashMod) % len = h % len for the 64-bit hash h
HashMod == 60

HashWidth == 2 * HashRadius + 1

\* DefaultHasher::new() is SipHash-1-3 with a zero key; x, y and z are fed
\* as three native-endian 8-byte words.  Entry ((x+R)*W + (y+R))*W + (z+R) + 1
\* is the 64-bit result for the cell <<x, y, z>>, reduced modulo HashMod.
SipTable ==
  <<
    34, 59, 19, 36, 3, 40, 24, 35, 30, 21, 32, 11, 24, 39, 22, 1, 21,
    43, 51, 40, 32, 31, 5, 56, 54, 53, 35, 37, 36, 18, 25, 2, 33, 10,
    5, 12, 51, 41, 47, 10, 28, 30, 21, 48, 28, 26, 53, 25, 40, 22, 46,
    53, 8, 13, 29, 55, 31, 47, 44, 50, 58, 54, 48, 29, 9, 27, 23, 52,
    38, 29, 25, 41, 14, 57, 43, 33, 43, 17, 46, 43, 59, 44, 52, 52, 46,
    43, 27, 31, 29, 19, 37, 27, 26, 33, 32, 6, 0, 38, 47, 33, 29, 5,
    46, 40, 29, 20, 53, 28, 45, 36, 23, 15, 12, 35, 5, 24, 29, 38, 4,
    4, 40, 2, 11, 19, 22, 57, 3, 6, 50, 30, 25, 33, 39, 8, 31, 57,
    21, 51, 11, 29, 27, 43, 17, 3, 32, 58, 30, 47, 37, 19, 8, 9, 4,
    4, 11, 35, 16, 7, 48, 11, 25, 22, 35, 12, 37, 56, 37, 32, 55, 14,
    39, 27, 33, 9, 11, 24, 56, 59, 0, 59, 46, 57, 45, 1, 22, 45, 43,
    28, 53, 17, 59, 29, 41, 28, 49, 27, 30, 58, 47, 43, 50, 7, 47, 43,
    23, 50, 1, 9, 45, 28, 22, 26, 19, 18, 59, 28, 10, 33, 33, 8, 28,
    4, 35, 7, 34, 27, 39, 1, 21, 19, 41, 40, 29, 33, 15, 34, 56, 7,
    41, 9, 18, 46, 7, 59, 26, 48, 6, 43, 23, 48, 55, 5, 39, 14, 35,
    27, 32, 55, 3, 33, 7, 26, 43, 25, 22, 43, 22, 21, 37, 27, 49, 6,
    32, 59, 25, 10, 1, 59, 36, 29, 41, 0, 25, 44, 0, 35, 28, 38, 9,
    11, 59, 36, 18, 12, 1, 44, 2, 16, 56, 17, 18, 1, 14, 37, 16, 18,
    15, 9, 59, 47, 25, 37, 11, 17, 42, 4, 49, 8, 29, 5, 27, 32, 36,
    28, 27, 3, 43, 50, 39, 39, 11, 49, 32, 50, 5, 57, 58, 43, 25, 49,
    3, 56, 54, 20, 7, 21, 59, 59, 41, 27, 55, 42, 33, 41, 48, 1, 5,
    48, 57, 41, 33, 42, 3, 45, 14, 21, 39, 58, 35, 35, 29, 49, 58, 36,
    20, 36, 53, 39, 24, 34, 11, 18, 28, 24, 1, 33, 15, 53, 7, 31, 47,
    18, 53, 55, 4, 35, 14, 51, 55, 57, 29, 46, 23, 50, 43, 4, 24, 54,
    55, 52, 3, 22, 5, 51, 44, 26, 52, 15, 53, 55, 54, 49, 12, 20, 12,
    15, 33, 32, 44, 2, 21, 34, 32, 59, 47, 3, 11, 26, 30, 58, 10, 53,
    58, 13, 52, 40, 59, 36, 46, 2, 52, 36, 2, 8, 55, 18, 8, 31, 29,
    23, 5, 27, 56, 12, 10, 17, 26, 34, 23, 28, 9, 5, 7, 36, 11, 33,
    52, 55, 11, 12, 15, 56, 3, 15, 11, 40, 4, 12, 20, 26, 35, 55, 58,
    51, 55, 47, 0, 47, 4, 45, 47, 20, 9, 52, 39, 54, 3, 40, 6, 46,
    31, 10, 14, 37, 15, 48, 54, 0, 39, 33, 49, 18, 9, 24, 30, 51, 11,
    13, 1, 38, 26, 12, 25, 12, 53, 0, 5, 4, 35, 5, 52, 48, 52, 4,
    39, 27, 48, 30, 39, 8, 48, 18, 50, 41, 22, 43, 57, 54, 25, 10, 52,
    55, 20, 28, 53, 33, 8, 47, 30, 50, 10, 39, 31, 15, 22, 34, 36, 3,
    6, 42, 32, 55, 2, 17, 50, 24, 9, 39, 17, 39, 4, 4, 12, 12, 37,
    41, 52, 19, 30, 27, 17, 22, 14, 17, 40, 46, 40, 35, 49, 10, 15, 50,
    13, 42, 32, 35, 57, 32, 8, 34, 59, 36, 25, 14, 11, 28, 56, 40, 50,
    41, 22, 35, 59, 40, 35, 15, 29, 2, 44, 55, 51, 16, 12, 41, 47, 23,
    21, 32, 54, 21, 24, 50, 26, 42, 21, 26, 34, 55, 52, 58, 37, 46, 48,
    29, 37, 1, 32, 15, 1, 26, 19, 7, 21, 6, 31, 57, 18, 32, 7, 42,
    19, 55, 33, 13, 26, 44, 29, 13, 3, 14, 35, 37, 39, 35, 42, 19, 33,
    56, 59, 26, 2, 25, 54, 10, 25, 47, 42, 12, 30, 58, 11, 2, 6, 15,
    38, 1, 24, 17, 26, 8, 24, 34, 42, 7, 36, 5, 43, 30, 30, 47, 18,
    18, 40, 7, 47, 20, 54, 10, 39, 2, 3, 48, 3, 59, 6, 13, 32, 34,
    59, 11, 15, 18, 2, 39, 59, 4, 34, 55, 31, 17, 33, 43, 44, 41, 28,
    34, 5, 24, 29, 58, 7, 10, 5, 20, 54, 57, 43, 15, 48, 27, 11, 21,
    58, 54, 13, 28, 20, 12, 35, 14, 23, 40, 15, 20, 24, 56, 14, 18, 2,
    7, 23, 4, 54, 28, 2, 33, 55, 17, 19, 49, 53, 51, 16, 52, 47, 16,
    0, 41, 37, 12, 24, 6, 23, 48, 53, 51, 8, 52, 49, 25, 24, 27, 0,
    53, 43, 50, 59, 40, 21, 26, 24, 1, 23, 38, 26, 19, 1, 19, 16, 47,
    25, 30, 23, 52, 34, 45, 1, 15, 23, 22, 11, 19, 14, 19, 2, 21, 48,
    11, 24, 32, 14, 59, 27, 18, 28, 35, 45, 56, 10, 15, 29, 31, 23, 32,
    22, 25, 39, 58, 43, 46, 17, 15, 45, 40, 19, 11, 43, 14, 4, 27, 21,
    32, 12, 29, 49, 48, 18, 58, 29, 22, 2, 18, 15, 31, 15, 2, 51, 6,
    36, 18, 40, 55, 27, 45, 44, 57, 25, 20, 32, 51, 22, 43, 3, 46, 12,
    47, 3, 41, 33, 56, 5, 16, 28, 30, 27, 39, 15, 34, 32, 38, 19, 29,
    46, 58, 36, 5, 40, 47, 34, 51, 6, 39, 35, 52, 2, 16, 54, 48, 47,
    49, 43, 51, 3, 57, 22, 18, 39, 51, 25, 31, 45, 58, 17, 50, 47, 19,
    59, 27, 34, 23, 39, 29, 15, 23, 46, 37, 17, 19, 59, 9, 27, 56, 47,
    56, 6, 34, 10, 31, 18, 32, 15, 6, 30, 59, 35, 16, 36, 9, 25, 40,
    35, 42, 16, 37, 1, 33, 3, 19, 38, 40, 48, 22, 27, 57, 4, 38, 44,
    14, 2, 31, 13, 33, 32, 36, 45, 16, 14, 0, 46, 57, 44, 51, 0, 17,
    10, 50, 58, 28, 39, 49, 25, 8, 0, 27, 48, 23, 1, 2, 36, 40, 34,
    17, 41, 0, 54, 31, 38, 6, 47, 43, 10, 41, 0, 3, 23, 39, 38, 53,
    37, 12, 51, 15, 18, 15, 40, 58, 0, 56, 9, 19, 49, 13, 18, 8, 56,
    32, 16, 59, 39, 37, 42, 6, 11, 2, 19, 59, 38, 41, 49, 20, 9, 11,
    54, 33, 49, 52, 2, 33, 28, 56, 16, 17, 59, 24, 9, 53, 0, 27, 5,
    28, 39, 25, 51, 0, 41, 9, 4, 4, 50, 22, 16, 30, 4, 13, 18, 44,
    49, 55, 37, 12, 1, 8, 1, 57, 6, 23, 5, 52, 2, 58, 40, 44, 38,
    15, 51, 14, 4, 8, 49, 18, 11, 32, 26, 20, 43, 43, 22, 15, 52, 16,
    47, 41, 34, 7, 6, 58, 7, 8, 47, 15, 39, 35, 3, 10, 45, 51, 43,
    0, 4, 37, 55, 33, 29, 29, 22, 37, 53, 48, 49, 17, 37, 32, 42, 24,
    27, 33, 43, 43, 37, 7, 55, 32, 24, 37, 5, 36, 44, 23, 34, 6, 40,
    13, 6, 34, 2, 22, 15, 14, 58, 33, 6, 0, 26, 49, 53, 56, 36, 25,
    13, 36, 5, 38, 16, 24, 48, 57, 30, 34, 34, 39, 57, 19, 53, 23, 47,
    26, 33, 4, 8, 2, 41, 52, 45, 28, 15, 6, 5, 15, 52, 6, 58, 28,
    57, 18, 9, 13, 53, 49, 41, 56, 11, 10, 15, 54, 26, 13, 16, 10, 36,
    57, 35, 14, 3, 12, 2, 44, 46, 39, 15, 16, 21, 10, 11, 26, 9, 38,
    41, 51, 48, 6, 50, 25, 44, 6, 36, 11, 25, 23, 26, 6, 57, 41, 37,
    35, 22, 17, 40, 37, 45, 44, 29, 56, 51, 17, 47, 38, 1, 47, 46, 3,
    8, 45, 46, 7, 7, 55, 40, 38, 31, 12, 23, 26, 29, 14, 22, 32, 45,
    29, 40, 17, 16, 41, 47, 34, 57, 52, 36, 8, 30, 40, 57, 21, 34, 43,
    11, 6, 46, 13, 40, 33, 10, 5, 16, 5, 23, 57, 1, 59, 46, 30, 40,
    18, 37, 27, 26, 31, 52, 59, 13, 20, 26, 6, 42, 8, 19, 59, 3, 57,
    5, 17, 20, 33, 19, 59, 37, 35, 51, 39, 56, 47, 3, 42, 54, 23, 39,
    2, 47, 3, 31, 4, 46, 11, 0, 45, 6, 25, 42, 40, 26, 54, 10, 20,
    20, 46, 43, 50, 43, 53, 54, 47, 50, 46, 32, 51, 41, 27, 4, 52, 43,
    54, 53, 56, 49, 23, 27, 57, 10, 8, 2, 39, 49, 12, 21, 59, 4, 34,
    31, 10, 30, 47, 18, 57, 51, 42, 21, 32, 11, 58, 48, 16, 27, 28, 28,
    44, 16, 3, 36, 55, 48, 10, 36, 42, 35, 41, 33, 7, 56, 4, 1, 26,
    9, 33, 55, 5, 27, 46, 4, 21, 56, 51, 10, 33, 12, 28, 56, 34, 28,
    52, 35, 10, 56, 13, 14, 50, 23, 19, 57, 2, 0, 48, 48, 16, 30, 6,
    40, 40, 40, 19, 27, 21, 56, 42, 8, 14, 53, 19, 42, 33, 31, 48, 31,
    28, 31, 6, 24, 8, 21, 59, 18, 43, 12, 54, 12, 3, 7, 38, 1, 34,
    58, 49, 55, 17, 11, 26, 46, 40, 33, 42, 0, 10, 33, 12, 11, 11, 5,
    55, 23, 21, 31, 48, 47, 25, 43, 26, 54, 59, 35, 7, 48, 15, 59, 58,
    39, 58, 9, 24, 42, 38, 38, 7, 12, 58, 23, 49, 48, 39, 42, 24, 44,
    57, 16, 25, 42, 47, 11, 46, 16, 25, 54, 55, 24, 23, 13, 14, 3, 11,
    30, 28, 58, 55, 30, 10, 57, 8, 40, 23, 24, 24, 37, 44, 43, 35, 25,
    59, 21, 14, 27, 6, 11, 26, 25, 0, 16, 45, 37, 12, 32, 39, 35, 14,
    9, 11, 41, 47, 58, 34, 56, 10, 2, 33, 13, 0, 48, 56, 49, 32, 58,
    26, 37, 9, 6, 57, 19, 52, 43, 11, 22, 26, 15, 56, 31, 54, 50, 59,
    28, 5, 7, 11, 45, 35, 41, 38, 33, 16, 17, 25, 40, 11, 35, 56, 33,
    57, 10, 21, 15, 24, 0, 32, 11, 55, 1, 19, 1, 14, 8, 6, 22, 49,
    29, 56, 14, 23, 18, 55, 23, 22, 25, 25, 22, 3, 10, 48, 57, 42, 50,
    5, 38, 24, 11, 8, 7, 52, 57, 37, 30, 33, 26, 54, 9, 0, 44, 52,
    29, 9, 46, 56, 6, 19, 0, 54, 13, 49, 56, 21, 2, 27, 12, 57, 49,
    56, 30, 33, 42, 32, 40, 44, 23, 12, 6, 32, 40, 48, 39, 22, 42, 36,
    2, 48, 12, 42, 7, 59, 24, 51, 9, 48, 2, 31, 53, 5, 13, 58, 3,
    30, 41, 39, 16, 44, 53, 21, 23, 49, 47, 17, 52, 44, 28, 32, 35, 55,
    56, 11, 44, 46, 41, 51, 34, 48, 18, 55, 2, 40, 43, 20, 2, 18, 55,
    56, 8, 32, 56, 51, 40, 46, 36, 20, 50, 34, 22, 2, 1, 14, 9, 43,
    18, 11, 57, 20, 22, 6, 3, 42, 3, 40, 40, 58, 0, 9, 2, 47, 6,
    54, 42, 58, 36, 45, 1, 23, 53, 55, 22, 26, 5, 30, 56, 4, 39, 42,
    10, 39, 42, 44, 5, 19, 58, 5, 51, 24, 51, 22, 4, 17, 40, 42, 11,
    58, 26, 52, 36, 31, 45, 57, 34, 9, 7, 17, 29, 37, 23, 14, 38, 55,
    2, 46, 38, 13, 46, 26, 58, 21, 15, 53, 1, 30, 57, 58, 21, 55, 24,
    54, 3, 50, 14, 56, 57, 4, 42, 18, 58, 41, 52, 53, 31, 41, 23, 59,
    9, 9, 31, 32, 8, 58, 5, 18, 46, 54, 33, 39, 49, 0, 22, 10, 43,
    35, 0, 48, 25, 8, 55, 30, 38, 3, 39, 10, 50, 52, 11, 24, 22, 15,
    23, 0, 13, 8, 52, 11, 51, 7, 28, 41, 54, 20, 20, 34, 38, 0, 53,
    52, 56, 3, 9, 24, 32, 7, 8, 48, 14, 21, 30, 54, 24, 17, 15, 28,
    52, 48, 28, 51, 43, 32, 13, 48, 20, 6, 53, 33, 24, 4, 52, 34, 38,
    32, 9, 39, 16, 7, 3, 19, 5, 36, 19, 9, 21, 41, 40, 56, 41, 44,
    44, 29, 31, 22, 23, 56, 1, 27, 55, 24, 34, 57, 45, 25, 0, 15, 52,
    25, 0, 35, 34, 16, 2, 19, 16, 15, 4, 24, 29, 7, 43, 42, 17, 50,
    17, 14, 7, 44, 0, 7, 39, 19, 15, 30, 45, 11, 1, 31, 16, 33, 15,
    58, 49, 18, 49, 9, 3, 45, 22, 3, 16, 6, 46, 25, 50, 38, 36, 0,
    3, 51, 3, 47, 41, 20, 53, 36, 40, 38, 0, 6, 15, 38, 23, 16, 2,
    17, 55, 19, 8, 52, 32, 19, 58, 27, 53, 41, 13, 12, 13, 48, 45, 50,
    38, 43, 14, 6, 45, 26, 59, 53, 16, 8, 19, 5, 54, 51, 27, 17, 4,
    2, 26, 53, 4, 21, 2, 8, 29, 19, 6, 51, 50, 59, 53, 39, 45, 49,
    49, 39, 30, 23, 12, 30, 42, 20, 25, 8, 14, 36, 2, 0, 26, 26, 39,
    24, 7, 21, 49, 19, 16, 59, 56, 59, 56, 44, 4, 27, 22, 38, 39, 19,
    55, 4, 53, 11, 3, 3, 33, 26, 1, 59, 25, 5, 1, 35, 11, 43, 18,
    2, 46, 25, 21, 31, 9, 33, 43, 37, 53, 19, 33, 42, 42, 42, 3, 28,
    10, 12, 40, 16, 52, 33, 8, 57, 35, 19, 25, 0, 50, 59, 6, 30, 58,
    38, 30, 50, 39, 32, 43, 19, 17, 22, 0, 41, 54, 8, 19, 10, 21, 22,
    32, 11, 5, 37, 37, 50, 4, 28, 1, 46, 55, 18, 11, 26, 40, 52, 42,
    27, 48, 25, 45, 29, 17, 55, 29, 0, 49, 20, 40, 25, 54, 58, 15, 28,
    5, 31, 29, 6, 26, 39, 59, 23, 38, 35, 31, 39, 6, 27, 32, 8, 15,
    21, 59, 58, 6, 24, 39, 49, 58, 8, 22, 28, 45, 18, 31, 6, 2, 40,
    30, 40, 31, 24, 57, 33, 59, 41, 30, 15, 30, 39, 33, 6, 18, 8, 1,
    13, 21, 13, 18, 54, 33, 37, 5, 45, 53, 2, 45, 13, 9, 49, 14, 49,
    37, 49, 37, 33, 3, 33, 0, 36, 44, 43, 22, 45, 4, 44, 27, 43, 22,
    8, 3, 48, 42, 30, 29, 49, 39, 13, 5, 17, 45, 9, 17, 45, 10, 25,
    54, 42, 6, 11, 11, 10, 52, 54, 13, 36, 36, 55, 6, 46, 55, 47, 1,
    19, 23, 32, 5, 26, 13, 11, 8, 52, 22, 44, 49, 10, 21, 39, 28, 55,
    57, 33, 43, 29, 54, 9, 5, 40, 47, 7, 7, 35, 17, 2, 53, 33, 6,
    48, 28, 28, 48, 38, 16, 2, 7, 8, 19, 34, 6, 27, 54, 42, 50, 47,
    6, 29, 7, 22, 1, 3, 28, 34, 3, 31, 33, 16, 9, 5, 48, 56, 9,
    43, 44, 48, 24, 52, 2, 35, 16, 2, 22, 10, 35, 33, 28, 10, 43, 45,
    22, 21, 48, 12, 17, 50, 22, 59, 44, 59, 46, 27, 44, 11, 19, 37, 4,
    43, 38, 45, 20, 34, 9, 8, 2, 12, 44, 14, 17, 28, 49, 41, 48, 23,
    34, 2, 49, 55, 12, 48, 36, 40, 37, 28, 53, 2, 8, 59, 56, 33, 15,
    23, 36, 11, 37, 14, 7, 6, 16, 52, 14, 46, 25, 32, 12, 4, 24, 55,
    6, 52, 54, 25, 53, 49, 17, 25, 1, 36, 15, 29, 43, 32, 27, 43, 50,
    19, 11, 39, 24, 37, 52, 37, 36, 55, 39, 38, 42, 13, 36, 55, 27, 22,
    9, 6, 39, 19, 55, 54, 59, 0, 31, 28, 1, 5, 27, 15, 47, 58, 57,
    33, 54, 4, 32, 21, 53, 53, 22, 36, 40, 39, 2, 44, 25, 55, 5, 22,
    45, 13, 1, 19, 54, 48, 44, 58, 9, 11, 8, 37, 40, 0, 13, 34, 56,
    27, 16, 45, 26, 49, 47, 51, 45, 0, 44, 53, 34, 11, 49, 18, 3, 56,
    2, 58, 12, 3, 9, 29, 45, 3, 39, 15, 43, 22, 21, 26, 58, 57, 22,
    22, 37, 58, 16, 16, 39, 2, 2, 30, 4, 43, 33, 20, 29, 45, 51, 46,
    37, 21, 32, 42, 19, 21, 54, 10, 24, 48, 13, 58, 41, 15, 47, 8, 56,
    32, 12, 17, 39, 51, 13, 1, 3, 53, 26, 58, 48, 48, 50, 21, 56, 3,
    43, 41, 17, 47, 34, 41, 42, 36, 11, 4, 32, 54, 7, 37, 11, 26, 38,
    4, 30, 33, 28, 39, 36, 48, 7, 9, 20, 3, 52, 42, 25, 31, 53, 8,
    35, 2, 10, 4, 29, 33, 3, 20, 44, 1, 3, 44, 17, 1, 51, 9, 23,
    15, 20, 30, 5, 43, 21, 37, 24, 49, 14, 57, 1, 11, 27, 33, 46, 12,
    5, 3, 16, 50, 35, 14, 22, 4, 0, 36, 39, 12, 59, 26, 36, 46, 23,
    1, 41, 57, 25, 8, 58, 27, 24, 16, 4, 11, 30, 36, 52, 37, 58, 44,
    53, 47, 13, 32, 39, 50, 33, 30, 55, 58, 18, 53, 41, 38, 17, 5, 50,
    11, 23, 9, 3, 57, 22, 57, 12, 13, 49, 29, 1, 58, 35, 42, 55, 41,
    19, 21, 31, 56, 4, 21, 27, 36, 33, 11, 48, 11, 39, 58, 3, 48, 30,
    54, 38, 55, 41, 39, 55, 43, 8, 34, 9, 40, 8, 30, 22, 16, 21, 42,
    8, 42, 45, 6, 33, 46, 21, 7, 5, 38, 2, 59, 13, 41, 29, 1, 5,
    9, 20, 17, 16, 12, 2, 41, 49, 28, 11, 22, 17, 7, 4, 8, 28, 32,
    22, 50, 2, 32, 8, 36, 35, 47, 45, 44, 22, 55, 16, 6, 17, 17, 15,
    52, 20, 23, 49, 22, 24, 5, 59, 1, 17, 27, 18, 6, 14, 13, 37, 57,
    9, 32, 13, 17, 50, 2, 29, 27, 30, 10, 39, 46, 25, 53, 55, 49, 38,
    45, 14, 52, 14, 54, 50, 26, 13, 6, 3, 44, 0, 45, 24, 19, 4, 28,
    38, 48, 59, 37, 24, 49, 37, 46, 31, 45, 1, 39, 57, 26, 44, 35, 32,
    1, 27, 16, 59, 15, 54, 19, 55, 37, 50, 3, 36, 33, 7, 48, 1, 47,
    14, 30, 3, 15, 54, 44, 10, 3, 49, 55, 0, 46, 2, 42, 21, 4, 0,
    44, 53, 45, 5, 5, 34, 37, 14, 49, 15, 39, 8, 10, 14, 44, 5, 21,
    13, 4, 14, 39, 36, 25, 55, 52, 6, 22, 40, 35, 9, 7, 2, 30, 0,
    4, 17, 3, 6, 21, 21, 0, 4, 49, 58, 3, 21, 19, 48, 5, 28, 30,
    16, 48, 5, 49, 38, 41, 57, 9, 55, 35, 3, 45, 36, 27, 31, 4, 38,
    52, 2, 43, 17, 37, 7, 20, 47, 51, 53, 17, 16, 52, 39, 33, 45, 8,
    59, 18, 59, 52, 1, 0, 9, 9, 18, 27, 21, 10, 44, 37, 36, 17, 4,
    17, 15, 57, 25, 49, 43, 16, 24, 8, 13, 45, 10, 51, 59, 15, 21, 30,
    50, 9, 34, 5, 43, 47, 11, 11, 0, 55, 54, 18, 43, 35, 12, 25, 54,
    1, 6, 42, 7, 34, 11, 33, 59, 1, 40, 57, 38, 55, 50, 16, 31, 12,
    23, 41, 14, 11, 44, 56, 14, 3, 13, 6, 53, 25, 7, 44, 33, 38, 0,
    36, 39, 27, 28, 35, 17, 8, 45, 42, 41, 37, 33, 54, 7, 40, 0, 11,
    21, 51, 6, 48, 26, 52, 17, 52, 46, 57, 28, 48, 47, 35, 48, 44, 40,
    45, 12, 31, 58, 58, 42, 53, 2, 28, 15, 25, 18, 3, 46, 17, 25, 15,
    46, 2, 43, 45, 5, 31, 28, 46, 13, 38, 53, 56, 23, 48, 41, 46, 3,
    54, 25, 32, 5, 7, 28, 27, 54, 13, 36, 32, 48, 30, 17, 47, 11, 7,
    32, 0, 25, 44, 7, 10, 20, 41, 25, 8, 42, 11, 54, 8, 57, 29, 7,
    29, 23, 35, 15, 41, 24, 22, 9, 23, 54, 18, 22, 5, 16, 53, 50, 7,
    57, 18, 53, 31, 56, 35, 16, 49, 39, 33, 48, 10, 14, 24, 33, 49, 49,
    53, 15, 35, 37, 28, 8, 24, 7, 17, 35, 46, 14, 26, 59, 34, 59, 16,
    21, 23, 15, 43, 24, 29, 52, 33, 22, 20, 11, 37, 8, 52, 18, 39, 41,
    31, 18, 43, 49, 23, 1, 44, 1, 51, 2, 11, 2, 38, 14, 24, 26, 55,
    16, 13, 8, 36, 33, 3, 11, 35, 18, 21, 8, 2, 19, 31, 44, 44, 15,
    16, 28, 59, 37, 25, 29, 23, 50, 2, 32, 54, 36, 13, 51, 51, 30, 56,
    16, 2, 28, 35, 48, 21, 12, 37, 57, 36, 46, 10, 20, 8, 8, 59, 2,
    1, 29, 44, 47, 7, 10, 1, 32, 25, 6, 29, 35, 6, 7, 42, 34, 23,
    26, 19, 25, 33, 7, 15, 42, 10, 17, 22, 17, 28, 6, 50, 16, 2, 9,
    7, 6, 20, 16, 35, 22, 28, 47, 39, 30, 15, 15, 28, 19, 17, 41, 13,
    52, 35, 59, 45, 50, 49, 47, 3, 43, 21, 18, 48, 54, 43, 35, 28, 43,
    29, 59, 20, 18, 32, 37, 20, 32, 56, 18, 19, 38, 34, 1, 14, 56, 48,
    44, 56, 36, 42, 29, 25, 43, 37, 20, 5, 40, 4, 54, 54, 0, 41, 50,
    30, 20, 18, 58, 53, 46, 46, 6, 2, 8, 28, 22, 12, 31, 40, 7, 15,
    37, 49, 40, 13, 36, 49, 30, 46, 58, 18, 46, 43, 51, 27, 47, 14, 23,
    51, 37, 24, 14, 56, 25, 9, 55, 46, 2, 29, 24, 28, 14, 54, 54, 32,
    40, 36, 6, 51, 58, 18, 55, 26, 16, 53, 2, 19, 45, 22, 57, 52, 10,
    39, 31, 50, 33, 24, 15, 40, 27, 49, 39, 24, 42, 32, 50, 10, 6, 12,
    4, 53, 49, 40, 11, 49, 13, 8, 25, 19, 25, 5, 21, 34, 25, 12, 29,
    25, 30, 7, 13, 52, 40, 25, 26, 58, 6, 43, 42, 29, 26, 4, 22, 55,
    51, 59, 25, 44, 15, 24, 10, 17, 6, 29, 22, 23, 25, 6, 4, 11, 53,
    36, 3, 7, 50, 38, 12, 24, 43, 51, 34, 23, 42, 31, 19, 19, 37, 2,
    41, 39, 3, 51, 6, 53, 30, 24, 5, 55, 34, 14, 31, 57, 31, 14, 29,
    3, 15, 54, 59, 38, 11, 2, 39, 35, 25, 39, 4, 5, 12, 57, 40, 21,
    30, 15, 53, 8, 36, 4, 33, 32, 15, 35, 58, 15, 55, 43, 26, 58, 52,
    59, 9, 46, 48, 53, 16, 47, 10, 0, 0, 11, 59, 14, 12, 16, 10, 14,
    24, 16, 2, 5, 38, 18, 53, 8, 10, 53, 21, 26, 3, 45, 12, 55, 10,
    37, 11, 29, 23, 59, 18, 51, 55, 8, 23, 39, 59, 49, 36, 46, 20, 6,
    53, 49, 43, 33, 20, 50, 43, 52, 43, 5, 37, 28, 5, 54, 27, 13, 35,
    22, 49, 19, 17, 36, 36, 6, 1, 21, 35, 24, 40, 41, 42, 43, 22, 1,
    52, 39, 10, 51, 47, 12, 44, 36, 45, 18, 20, 59, 21, 50, 55, 50, 41,
    9, 0, 52, 22, 44, 47, 37, 37, 1, 42, 34, 45, 5, 19, 58, 37, 25,
    18, 34, 9, 18, 55, 32, 23, 2, 38, 43, 59, 57, 55, 49, 47, 27, 3,
    6, 20, 38, 53, 29, 15, 42, 25, 46, 42, 8, 36, 20, 12, 33, 55, 24,
    53, 28, 19, 14, 56, 53, 10, 50, 45, 28, 15, 16, 21, 46, 49, 53, 52,
    28, 12, 52, 2, 29, 40, 3, 7, 8, 58, 6, 50, 48, 55, 2, 47, 5,
    16, 19, 58, 36, 40, 4, 15, 8, 13, 12, 57, 51, 29, 33, 38, 17, 4,
    17, 30, 56, 14, 18, 14, 45, 19, 27, 8, 18, 51, 4, 11, 49, 39, 23,
    17, 46, 18, 11, 59, 30, 3, 39, 11, 44, 38, 1, 54, 0, 45, 29, 31,
    6, 29, 45, 0, 44, 5, 50, 44, 56, 14, 5, 10, 41, 23, 22, 38, 49,
    49, 31, 22, 17, 8, 20, 25, 17, 18, 58, 34, 13, 11, 4, 38, 32, 56,
    48, 24, 45, 48, 3, 37, 44, 55, 55, 4, 35, 9, 23, 43, 14, 25, 21,
    37, 14, 55, 45, 51, 51, 4, 10, 52, 41, 13, 29, 37, 47, 26, 48, 48,
    54, 45, 3, 53, 57, 53, 16, 14, 6, 7, 53, 12, 35, 39, 53, 16, 28,
    50, 0, 33, 20, 46, 40, 27, 21, 14, 7, 56, 7, 23, 11, 51, 28, 35,
    32, 59, 48, 56, 21, 56, 32, 6, 43, 9, 54, 46, 21, 5, 10, 41, 35,
    32, 3, 36, 2, 43, 37, 17, 39, 20, 22, 10, 35, 58, 8, 50, 8, 11,
    57, 33, 58, 53, 21, 22, 51, 28, 5, 6, 17, 37, 49, 34, 35, 10, 11,
    13, 7, 45, 36, 44, 58, 8, 46, 53, 13, 6, 23, 19, 54, 58, 48, 37,
    43, 10, 49, 40, 30, 28, 29, 7, 19, 49, 22, 12, 18, 26, 18, 13, 2,
    27, 31, 18, 30, 36, 58, 56, 18, 10, 0, 11, 7, 8, 39, 58, 6, 30,
    18, 35, 50, 55, 11, 52, 13, 36, 27, 26, 17, 11, 5, 46, 22, 54, 10,
    15, 33, 45, 51, 31, 13, 9, 8, 15, 37, 42, 25, 23, 8, 15, 24, 31,
    15, 17, 44, 15, 45, 28, 30, 3, 18, 31, 32, 47, 55, 49, 59, 22, 38,
    25, 14, 52, 58, 33, 48, 54, 14, 37, 34, 5, 38, 55, 11, 54, 29, 18,
    59, 20, 14, 23, 35, 9, 36, 36, 53, 3, 44, 35, 33, 32, 12, 19, 31,
    4, 18, 16, 43, 29, 54, 50, 41, 5, 53, 39, 24, 59, 6, 21, 31, 27,
    48, 15, 25, 59, 56, 20, 53, 30, 41, 32, 3, 51, 54, 28, 37, 34, 52,
    42, 7, 51, 46, 17, 42, 10, 21, 9, 44, 23, 25, 2, 16, 50, 30, 39,
    41, 28, 20, 48, 5, 1, 30, 37, 0, 8, 10, 18, 18, 46, 56, 36, 54,
    21, 33, 2, 48, 26, 47, 54, 18, 10, 37, 29, 22, 17, 57, 14, 13, 8,
    23, 45, 44, 29, 6, 0, 43, 56, 20, 23, 48, 22, 47, 26, 52, 55, 56,
    15, 53, 24, 2, 4, 19, 53, 22, 34, 32, 41, 37, 14, 14, 25, 5, 33,
    40, 58, 14, 1, 28, 59, 17, 40, 57, 41, 22, 37, 43, 32, 39, 9, 2,
    6, 28, 24, 45, 25, 41, 57, 37, 17, 15, 27, 9, 3, 11, 57, 3, 54,
    36, 24, 43, 26, 46, 32, 29, 13, 14, 34, 26, 26, 40, 47, 9, 6, 30,
    3, 13, 48, 45, 47, 58, 48, 26, 47, 16, 42, 1, 36, 44, 9, 24, 54,
    44, 52, 8, 48, 9, 55, 53, 32, 11, 49, 8, 19, 23, 53, 2, 52, 59,
    7, 50, 12, 52, 53, 42, 15, 16, 18, 3, 36, 53, 14, 1, 30, 38, 1,
    11, 55, 41, 17, 59, 24, 32, 34, 34, 47, 41, 32, 43, 27, 12, 23, 47,
    7, 42, 31, 38, 33, 25, 50, 52, 43, 36, 57, 43, 56, 40, 54, 30, 20,
    16, 40, 24, 29, 48, 13, 31, 2, 14, 38, 4, 4, 33, 30, 48, 35, 36,
    18, 20, 6, 26, 0, 30, 23, 10, 16, 40, 13, 21, 34, 32, 4, 10, 21,
    5, 9, 42, 22, 24, 21, 1, 13, 34, 54, 41, 22, 54, 15, 47, 53, 58,
    22, 38, 40, 41, 22, 5, 6, 52, 12, 19, 20, 3, 1, 30, 41, 34, 40,
    52, 18, 48, 7, 27, 57, 19, 2, 19, 41, 11, 3, 55, 53, 15, 34, 46,
    46, 33, 4, 24, 16, 7, 43, 8, 15, 4, 32, 25, 35, 47, 1, 28, 38,
    41, 18, 13, 4, 36, 52, 44, 45, 28, 46, 33, 15, 49, 16, 48, 52, 24,
    52, 51, 36, 39, 22, 8, 31, 30, 58, 35, 33, 12, 8, 17, 16, 9, 33,
    48, 27, 19, 9, 37, 6, 41, 18, 1, 10, 49, 59, 2, 44, 55, 48, 39,
    31, 48, 0, 2, 20, 0, 11, 43, 37, 17, 32, 59, 17, 46, 7, 4, 19,
    17, 14, 56, 16, 37, 41, 46, 1, 47, 46, 23, 36, 56, 13, 48, 46, 40,
    40, 39, 48, 24, 52, 49, 16, 10, 31, 1, 47, 40, 16, 53, 53, 36, 47,
    26, 48, 12, 2, 36, 22, 50, 10, 25, 19, 18, 14, 36, 53, 11, 10, 7,
    52, 2, 23, 32, 24, 30, 48, 24, 55, 58, 41, 7, 47, 33, 9, 46, 53,
    17, 28, 58, 38, 23, 30, 46, 1, 7, 38, 27, 38, 18, 48, 58, 22, 14,
    51, 50, 24, 28, 18, 33, 18, 21, 6, 31, 53, 59, 49, 6, 35, 7, 31
  >>

hash(cell) ==
  SipTable[((cell[1] + HashRadius) * HashWidth + (cell[2] + HashRadius)) * HashWidth
           + (cell[3] + HashRadius) + 1]

\* what an AtomicUsize holds after wrapping below zero (stands for 2^64 - 1)
UsizeMax == 2147483647

(* ------------------------------ state ---------------------------------- *)

VARIABLES
  \* struct Particles
  world_size, current_particles, previous_particles, id_count,
  attraction_matrix, friction, force_scale, min_attraction_percentage,
  particle_effect_radius, solid_walls, gravity,
  \* one call of update: its argument, its position, its locals
  ts, pc, hash_table_length, hash_table, particle_indices,
  \* work items of the three parallel passes
  counted,      \* count items that have run
  fetched,      \* scatter item |-> the value its fetch_sub returned
  stored,       \* scatter items that have stored their index
  collected,    \* force item |-> the particle it produced
  total_force,  \* force item |-> its accumulated total_force
  examined,     \* force item |-> how often it examined each (offset, neighbor)
  \* history: completed calls, the buffers when the last call was entered,
  \* the number of particles at construction
  ticks, entry_current, entry_previous, initial_count, initial_ids,
  \* struct App of the host: the time not yet spent on ticks, the tick rate,
  \* the position of App::update in a frame, the ticks done when it began
  fixed_time, ticks_per_second, frame, ticks_at_frame

config ==
  <<world_size, id_count, attraction_matrix, friction, force_scale,
    min_attraction_percentage, particle_effect_radius, solid_walls, gravity>>

buffers == <<current_particles, previous_particles>>

index_state == <<hash_table_length, hash_table, particle_indices>>

items == <<counted, fetched, stored, collected, total_force, examined>>

history == <<ticks, entry_current, entry_previous, initial_count, initial_ids>>

app == <<fixed_time, ticks_per_second, frame, ticks_at_frame>>

vars == <<config, buffers, ts, pc, index_state, items, history, app>>

\* a Vec literal: the function on 0..len-1 of a sequence
Vec(s) == [k \in 0..(Len(s) - 1) |-> s[k + 1]]

Particle(position, velocity, id) ==
  [position |-> position, velocity |-> velocity, id |-> id]

(* --------------------------- initial states ---------------------------- *)

\* <<world_size, particle_effect_radius>>; the last one breaks the precondition
Geometries == {<<32, 8>>, <<32, 16>>, <<16, 16>>}

\* a 2 x 2 matrix, and one that is too short for id_count = 2
AttractionMatrices == {Vec(<<8, -8, 4, 0>>), Vec(<<8, -8, 4>>)}

Gravities == {Zero3, <<0, -2, 0>>}

TsValues == {8}

\* the particles a run can start with, for a world of half size h
Pool(h) ==
  << Particle(<<0, 0, 0>>, Zero3, 0),
     Particle(<<5, 0, 0>>, Zero3, 1),
     Particle(<<0, 3, 0>>, Zero3, 2),
     Particle(<<h - 1, h - 1, h - 1>>, <<16, 24, 16>>, 1),
     Particle(<<-(h - 1), -(h - 1), -(h - 1)>>, <<-16, -72, -16>>, 0) >>

\* a particle next to the +x face that moves towards it and down
Lone(h) == Particle(<<h - 1, 0, 0>>, <<8, -12, 0>>, 0)

\* the arrays of at most MaxN pool particles, in pool order, and the array
\* of the lone particle
ParticleVecs(h) ==
  UNION { { [k \in 0..(n - 1) |-> Pool(h)[f[k]]] :
              f \in { g \in [0..(n - 1) -> 1..Len(Pool(h))] :
                        \A k \in 1..(n - 1) : g[k - 1] <= g[k] } } :
          n \in 0..MaxN }
  \cup { Vec(<<Lone(h)>>) }

\* 0.5, no friction at all, and 1.5
Frictions == {4, 0, 12}

Init ==
  /\ \E g \in Geometries :
       /\ world_size = g[1]
       /\ particle_effect_radius = g[2]
       /\ current_particles \in ParticleVecs(g[1] \div 2)
  /\ previous_particles = EmptyVec
  /\ id_count = 2
  /\ attraction_matrix \in AttractionMatrices
  /\ friction \in Frictions
  /\ (friction # 4
        => /\ current_particles = Vec(<<Lone(world_size \div 2)>>)
           /\ world_size >= 2 * particle_effect_radius
           /\ Length(attraction_matrix) = id_count * id_count
           /\ gravity = Zero3)
  /\ force_scale = 4
  /\ min_attraction_percentage = 4
  /\ solid_walls \in BOOLEAN
  /\ gravity \in Gravities
  /\ (Length(attraction_matrix) # id_count * id_count
        => gravity = Zero3 /\ ~solid_walls)
  /\ (gravity # Zero3 \/ Length(attraction_matrix) # id_count * id_count
        => particle_effect_radius = 8)
  /\ ts = 0
  /\ pc = "idle"
  /\ hash_table_length = 0
  /\ hash_table = EmptyVec
  /\ particle_indices = EmptyVec
  /\ counted = {}
  /\ fetched = EmptyVec
  /\ stored = {}
  /\ collected = EmptyVec
  /\ total_force = EmptyVec
  /\ examined = EmptyVec
  /\ ticks = 0
  /\ entry_current = EmptyVec
  /\ entry_previous = EmptyVec
  /\ initial_count = Length(current_particles)
  /\ initial_ids = [i \in DOMAIN current_particles |-> current_particles[i].id]
  /\ fixed_time = 0
  /\ ticks_per_second = 60
  /\ frame = "none"
  /\ ticks_at_frame = 0

(* ---------------------- spatial index (lines 37-79) -------------------- *)

cell_coord(v) ==
  << TruncDiv(v[1], particle_effect_radius),
     TruncDiv(v[2], particle_effect_radius),
     TruncDiv(v[3], particle_effect_radius) >>

\* hash(cell_coord(sphere.position)) % hash_table_length
BucketOf(position) == hash(cell_coord(position)) % hash_table_length

\* the cells the force pass can look up lie in the hash table of the model
InTable(position) ==
  \A k \in 1..3 :
    Abs(position[k]) + world_size
      <= (HashRadius - 1) * particle_effect_radius

\* the process has trapped: nothing runs after it
Panic ==
  /\ pc' = "panicked"
  /\ UNCHANGED <<app, config, buffers, ts, index_state, items, history>>

\* the assertion without the factor 2.0
PreconditionWithoutFactor == world_size >= particle_effect_radius

\* assert!(self.world_size >= 2.0 * self.particle_effect_radius)
Precondition == world_size >= 2 * particle_effect_radius

\* update(ts): the assertion, then the allocation of hash_table
Update(dt) ==
  /\ pc = "idle"
  /\ ticks < MaxTicks
  /\ \A i \in DOMAIN current_particles : InTable(current_particles[i].position)
  /\ entry_current' = current_particles
  /\ entry_previous' = previous_particles
  /\ IF ~Precondition
       THEN /\ pc' = "panicked"
            /\ UNCHANGED <<app, config, buffers, ts, index_state, items, ticks,
                           initial_count, initial_ids>>
       ELSE /\ pc' = "count"
            /\ ts' = dt
            /\ hash_table_length' = Length(current_particles)
            /\ hash_table' = [b \in 0..Length(current_particles) |-> 0]
            /\ particle_indices' = EmptyVec
            /\ counted' = {}
            /\ fetched' = EmptyVec
            /\ stored' = {}
            /\ collected' = EmptyVec
            /\ total_force' = EmptyVec
            /\ examined' = EmptyVec
            /\ UNCHANGED <<app, config, buffers, ticks, initial_count,
                           initial_ids>>

\* the particles the count pass and the scatter pass iterate over
WorkItems == DOMAIN current_particles

\* one work item of the count pass
CountItem(i) ==
  /\ pc = "count"
  /\ i \in WorkItems \ counted
  /\ IF hash_table_length = 0
       THEN Panic
       ELSE LET index == BucketOf(current_particles[i].position) IN
            /\ hash_table' = [hash_table EXCEPT ![index] = @ + 1]
            /\ counted' = counted \cup {i}
            /\ UNCHANGED <<app, config, buffers, ts, pc, hash_table_length,
                           particle_indices, fetched, stored, collected,
                           total_force, examined, history>>

\* the scan started at index 0
PrefixRangeFromZero == 0..(Length(hash_table) - 1)

\* for i in 1..hash_table.len()
PrefixRange == 1..(Length(hash_table) - 1)

\* a scan that adds the count of the bucket before, not the running sum
ScanNonCumulative(table, range) ==
  [k \in DOMAIN table |->
     IF k \in range THEN table[k] + table[k - 1] ELSE table[k]]

RECURSIVE Scan(_, _)
\* hash_table[i] += hash_table[i - 1], for the i of range in ascending order
Scan(table, range) ==
  IF range = {} THEN table
  ELSE LET i == CHOOSE m \in range : \A n \in range : m <= n IN
       Scan([table EXCEPT ![i] = table[i] + table[i - 1]], range \ {i})

\* a pass that does not wait for the work items of the pass before it
NoBarrier(done) == TRUE

\* a parallel iterator returns once every one of its work items has finished
Barrier(done) == done = WorkItems

\* the scan, then the allocation of particle_indices; runs once every count
\* item has finished
PrefixSum ==
  /\ pc = "count"
  /\ Barrier(counted)
  /\ IF \E i \in PrefixRange : i - 1 \notin DOMAIN hash_table
       THEN Panic
       ELSE /\ hash_table' = Scan(hash_table, PrefixRange)
            /\ particle_indices' = [k \in 0..(Length(current_particles) - 1) |-> 0]
            /\ pc' = "scatter"
            /\ UNCHANGED <<app, config, buffers, ts, hash_table_length, items, history>>

\* fetch_sub taken to hand back the value after the subtraction
FetchSubNewValue(old) == old - 1

\* what fetch_sub(1) hands back: the value before the subtraction
FetchSubResult(old) == old

\* first half of a scatter item: the atomic fetch_sub on its bucket
ScatterFetchSub(i) ==
  /\ pc = "scatter"
  /\ i \in WorkItems \ DOMAIN fetched
  /\ IF hash_table_length = 0
       THEN Panic
       ELSE LET index == BucketOf(current_particles[i].position)
                old == hash_table[index] IN
            /\ hash_table' =
                 [hash_table EXCEPT ![index] = IF old = 0 THEN UsizeMax ELSE old - 1]
            /\ fetched' = fetched @@ (i :> FetchSubResult(old))
            /\ UNCHANGED <<app, config, buffers, ts, pc, hash_table_length,
                           particle_indices, counted, stored, collected,
                           total_force, examined, history>>

\* second half: particle_indices[index - 1].store(i)
ScatterStore(i) ==
  /\ pc = "scatter"
  /\ i \in DOMAIN fetched \ stored
  /\ IF fetched[i] - 1 \notin DOMAIN particle_indices
       THEN Panic
       ELSE /\ particle_indices' = [particle_indices EXCEPT ![fetched[i] - 1] = i]
            /\ stored' = stored \cup {i}
            /\ UNCHANGED <<app, config, buffers, ts, pc, hash_table_length, hash_table,
                           counted, fetched, collected, total_force, examined,
                           history>>

\* the swap without the clear
NotCleared(v) == v

\* Vec::clear
Cleared(v) == EmptyVec

\* the two buffers left where they were
mem_swap_dropped(a, b) == <<a, b>>

\* mem::swap(&mut a, &mut b): the values of <<a, b>> after it
mem_swap(a, b) == <<b, a>>

\* mem::swap and clear; runs once every scatter item has finished
Swap ==
  /\ pc = "scatter"
  /\ Barrier(stored)
  /\ previous_particles' = mem_swap(current_particles, previous_particles)[2]
  /\ current_particles' = Cleared(mem_swap(current_particles, previous_particles)[1])
  /\ pc' = "force"
  /\ UNCHANGED <<app, config, ts, index_state, items, history>>

(* ------------------ force and integration (lines 84-231) --------------- *)

\* for a in -1..=1: the sum of what the three iterations add
Sum3(F(_)) == VAdd(VAdd(F(-1), F(0)), F(1))

\* the 27 values of three nested loops over -1..=1
Triples == {-1, 0, 1} \X {-1, 0, 1} \X {-1, 0, 1}

\* the offset without the factor world_size
OffsetUnscaled(t) == t

\* offset = vec3(x_offset, y_offset, z_offset) * world_size
OffsetOf(t) == VTimes(t, world_size)

\* neighbors read from the buffer that is being written, where already written
SnapshotRacy(j) ==
  IF j \in DOMAIN collected THEN collected[j] ELSE previous_particles[j]

\* the snapshot a force item reads its neighbors from
Snapshot(j) == previous_particles[j]

\* the closure force(distance, attraction)
force(distance, attraction) ==
  IF distance < min_attraction_percentage
    THEN FDiv(distance, min_attraction_percentage) - Scale
  ELSE IF min_attraction_percentage < distance /\ distance < Scale
    THEN FMul(attraction,
              Scale - FDiv(Abs(2 * distance - Scale - min_attraction_percentage),
                           Scale - min_attraction_percentage))
  ELSE 0

relative_position(particle, other, offset) ==
  VSub(other.position, VAdd(particle.position, offset))

\* 0 < sqr_distance < particle_effect_radius^2
InRange(particle, other, offset) ==
  LET sqr_distance == magnitude2(relative_position(particle, other, offset)) IN
  sqr_distance > 0 /\ sqr_distance < particle_effect_radius * particle_effect_radius

\* the transposed entry
MatrixIndexTransposed(particle, other) == other.id * id_count + particle.id

\* (particle.id * self.id_count + other_particle.id) as usize
MatrixIndex(particle, other) == particle.id * id_count + other.id

\* what one examined candidate adds to total_force
Contribution(particle, other, offset) ==
  IF InRange(particle, other, offset)
    THEN LET rel == relative_position(particle, other, offset)
             distance == Sqrt(magnitude2(rel))
             f == force(distance, attraction_matrix[MatrixIndex(particle, other)])
         IN  VMul(VDiv(rel, distance), f)
    ELSE Zero3

\* the bucket of the particle's own cell, whatever the cell offset
CellBucketOwnCell(cell, t) == hash(cell) % hash_table_length

\* hash(cell) % hash_table_length of the cell at cell + t
CellBucket(cell, t) == hash(VAdd(cell, t)) % hash_table_length

\* The three loops over x_cell_offset, y_cell_offset, z_cell_offset and the
\* loop over the slice of each cell's bucket: how often they reach slot k of
\* particle_indices, for the particle image in cell.
SlotVisits(cell, k) ==
  Cardinality({ t \in Triples :
                  LET index == CellBucket(cell, t) IN
                  hash_table[index] <= k /\ k < hash_table[index + 1] })

\* position of the triple o in the order of the three nested loops, 0..26
TripleIndex(o) == (o[1] + 1) * 9 + (o[2] + 1) * 3 + (o[3] + 1)

\* the triple at position n
TripleAt(n) == <<(n \div 9) - 1, ((n \div 3) % 3) - 1, (n % 3) - 1>>

\* key of the pair (offset triple o, index k of the snapshot or of
\* particle_indices) in a table with one entry per offset and per index
Key(o, k) == TripleIndex(o) * Length(previous_particles) + k

\* The three loops over x_offset, y_offset, z_offset around them:
\* Key(o, k) |-> how often the loops reach slot k at offset o.
Visits(particle) ==
  [m \in 0..(27 * hash_table_length - 1) |->
     SlotVisits(cell_coord(VAdd(particle.position,
                                OffsetOf(TripleAt(m \div hash_table_length)))),
                m % hash_table_length)]

RECURSIVE SumSlots(_, _, _, _)
\* total_force += ..., once per visit of each slot from k on, at offset o
SumSlots(particle, visits, o, k) ==
  IF k \notin DOMAIN particle_indices THEN Zero3
  ELSE VAdd(VTimes(Contribution(particle, Snapshot(particle_indices[k]), OffsetOf(o)),
                   visits[Key(o, k)]),
            SumSlots(particle, visits, o, k + 1))

\* total_force after the loops
TotalForce(particle, visits) ==
  Sum3(LAMBDA x : Sum3(LAMBDA y : Sum3(LAMBDA z :
    SumSlots(particle, visits, <<x, y, z>>, 0))))

RECURSIVE NeighborVisits(_, _, _, _)
\* the visits at offset o, from slot k on, of the slots that hold neighbor j
NeighborVisits(visits, o, j, k) ==
  IF k \notin DOMAIN particle_indices THEN 0
  ELSE (IF particle_indices[k] = j THEN visits[Key(o, k)] ELSE 0)
       + NeighborVisits(visits, o, j, k + 1)

\* Key(o, j) |-> how often neighbor j was handed to the distance test at
\* offset o
Examined(visits) ==
  [m \in 0..(27 * hash_table_length - 1) |->
     NeighborVisits(visits, TripleAt(m \div hash_table_length),
                    m % hash_table_length, 0)]

\* a slice with start > end or end > len panics
SliceTraps ==
  \E b \in 0..(hash_table_length - 1) :
    \/ hash_table[b] > hash_table[b + 1]
    \/ hash_table[b + 1] > Length(particle_indices)

\* an attraction_matrix index out of bounds panics; ex is Examined(Visits(particle))
MatrixTraps(particle, ex) ==
  \E j \in DOMAIN previous_particles :
    /\ MatrixIndex(particle, Snapshot(j)) \notin DOMAIN attraction_matrix
    /\ \E o \in Triples :
         ex[Key(o, j)] > 0 /\ InRange(particle, Snapshot(j), OffsetOf(o))

\* the damping without the guard against overshooting
UpdateVelocityNoGuard(velocity, total) ==
  LET v1 == VAdd(velocity,
                 VMul(VMul(VMul(total, force_scale), particle_effect_radius), ts))
      v2 == VAdd(v1, VMul(gravity, ts))
  IN  VSub(v2, VMul(VMul(v2, friction), ts))

\* lines 163-175
UpdateVelocity(velocity, total) ==
  LET v1 == VAdd(velocity,
                 VMul(VMul(VMul(total, force_scale), particle_effect_radius), ts))
      v2 == VAdd(v1, VMul(gravity, ts))
      velocity_change == VMul(VMul(v2, friction), ts)
  IN  IF magnitude2(velocity_change) > magnitude2(v2)
        THEN <<0, 0, 0>>
        ELSE VSub(v2, velocity_change)

\* world_size * 0.5
HalfWorld == FMul(world_size, Scale \div 2)

\* the upper face wrapping the wrong way
UpperFaceAddsWorld(p, axis, from) ==
  IF p.position[axis] > FMul(world_size, Scale \div 2)
    THEN IF solid_walls
           THEN [p EXCEPT !.position[axis] = FMul(world_size, Scale \div 2),
                          !.velocity[axis] = Min(p.velocity[from], 0)]
           ELSE [p EXCEPT !.position[axis] = @ + world_size]
    ELSE p

\* if position[axis] > world_size * 0.5 { ... }; the solid branch assigns
\* velocity[axis] = velocity[from].min(0.0)
UpperFace(p, axis, from) ==
  IF p.position[axis] > HalfWorld
    THEN IF solid_walls
           THEN [p EXCEPT !.position[axis] = HalfWorld,
                          !.velocity[axis] = Min(p.velocity[from], 0)]
           ELSE [p EXCEPT !.position[axis] = @ - world_size]
    ELSE p

\* if position[axis] < -world_size * 0.5 { ... }
LowerFace(p, axis) ==
  IF p.position[axis] < FMul(-world_size, Scale \div 2)
    THEN IF solid_walls
           THEN [p EXCEPT !.position[axis] = FMul(-world_size, Scale \div 2),
                          !.velocity[axis] = Max(p.velocity[axis], 0)]
           ELSE [p EXCEPT !.position[axis] = @ + world_size]
    ELSE p

\* lines 178-228: x reads velocity.y (line 183), y reads velocity.x (line 199)
UpdatePosition(p) ==
  LET p0 == [p EXCEPT !.position = VAdd(p.position, VMul(p.velocity, ts))]
      p1 == LowerFace(UpperFace(p0, 1, 2), 1)
      p2 == LowerFace(UpperFace(p1, 2, 1), 2)
  IN  LowerFace(UpperFace(p2, 3, 3), 3)

\* the position advanced with the velocity of before the tick
StepPositionFirst(particle, total) ==
  [UpdatePosition(particle) EXCEPT
     !.velocity = UpdateVelocity(particle.velocity, total)]

\* the closure of the map: one particle of the new snapshot
Step(particle, total) ==
  UpdatePosition([particle EXCEPT !.velocity = UpdateVelocity(particle.velocity, total)])

\* one work item of the force pass
ForceItem(i) ==
  /\ pc = "force"
  /\ i \in DOMAIN previous_particles \ DOMAIN collected
  /\ IF SliceTraps
       THEN Panic
       ELSE \E visits \in {Visits(previous_particles[i])} :
            \E ex \in {Examined(visits)} :
              IF MatrixTraps(previous_particles[i], ex)
                THEN Panic
                ELSE \E total \in {TotalForce(previous_particles[i], visits)} :
                     /\ collected' = collected @@ (i :> Step(previous_particles[i], total))
                     /\ total_force' = total_force @@ (i :> total)
                     /\ examined' = examined @@ (i :> ex)
                     /\ UNCHANGED <<app, config, buffers, ts, pc, index_state, counted,
                                    fetched, stored, history>>

\* the produced particles appended in reverse order
ExtendedReversed(v, produced) ==
  [k \in 0..(Length(v) + Length(produced) - 1) |->
     IF k < Length(v) THEN v[k] ELSE produced[Length(produced) - 1 - (k - Length(v))]]

\* par_extend: the produced particles, in order, after those already in v
Extended(v, produced) ==
  [k \in 0..(Length(v) + Length(produced) - 1) |->
     IF k < Length(v) THEN v[k] ELSE produced[k - Length(v)]]

\* par_extend sets the length once every force item has written its slot;
\* update returns and its locals are dropped
Finish ==
  /\ pc = "force"
  /\ DOMAIN collected = DOMAIN previous_particles
  /\ current_particles' = Extended(current_particles, collected)
  /\ pc' = "idle"
  /\ ticks' = ticks + 1
  /\ hash_table_length' = 0
  /\ hash_table' = EmptyVec
  /\ particle_indices' = EmptyVec
  /\ counted' = {}
  /\ fetched' = EmptyVec
  /\ stored' = {}
  /\ collected' = EmptyVec
  /\ UNCHANGED <<app, config, previous_particles, ts, total_force, examined,
                 entry_current, entry_previous, initial_count, initial_ids>>

Next ==
  \/ \E dt \in TsValues : Update(dt)
  \/ \E i \in 0..(MaxN - 1) : CountItem(i)
  \/ PrefixSum
  \/ \E i \in 0..(MaxN - 1) : ScatterFetchSub(i)
  \/ \E i \in 0..(MaxN - 1) : ScatterStore(i)
  \/ Swap
  \/ \E i \in 0..(MaxN - 1) : ForceItem(i)
  \/ Finish

Spec == Init /\ [][Next]_vars

(* ---------------- the host application (src/bin/main.rs) --------------- *)

\* the longest time the host is let to accumulate
MaxFixedTime == 4

\* units of fixed_time (a Duration) in one second
Second == 120

\* 1.0 / self.ticks_per_second as a Duration
Period(tps) == Second \div tps

\* 1.0 / self.ticks_per_second as the f32 handed to Particles::update
TickLength(tps) == FDiv(Scale, tps)

\* time.duration_since(self.last_time): the times a frame can take
FrameTimes == {1, 2, 3}

\* the values the user can give the Ticks Per Second slider
TicksPerSecondValues == {60, 40}

\* the values the user can drag World Size to: 2.0, 10.0, 12.0
WorldSizeValues == {16, 80, 96}

\* the values the user can give the Friction slider: 0.97 and 0.5
FrictionValues == {7, 4}

\* App::new: the attraction matrix of the five colors
HostMatrix ==
  Vec(<< 4,  8, -4,  0, -8,
         8,  8,  8,  0, -8,
         0,  0,  4, 12, -8,
         0,  0,  0,  0, -8,
         8,  8,  8,  8,  4 >>)

\* App::new: particles at rest inside the domain (two stand for the 1000)
HostParticles ==
  Vec(<< Particle(<<0, 0, 0>>, Zero3, 0), Particle(<<5, 0, 0>>, Zero3, 4) >>)

\* App::new; min_attraction_percentage, solid_walls and gravity are not set
\* by the struct literal
HostInit ==
  /\ world_size = 80
  /\ current_particles = HostParticles
  /\ previous_particles = EmptyVec
  /\ id_count = 5
  /\ attraction_matrix = HostMatrix
  /\ friction = 7
  /\ force_scale = 8
  /\ min_attraction_percentage = 4
  /\ particle_effect_radius = 16
  /\ solid_walls \in BOOLEAN
  /\ gravity = Zero3
  /\ ts = 0
  /\ pc = "idle"
  /\ hash_table_length = 0
  /\ hash_table = EmptyVec
  /\ particle_indices = EmptyVec
  /\ counted = {}
  /\ fetched = EmptyVec
  /\ stored = {}
  /\ collected = EmptyVec
  /\ total_force = EmptyVec
  /\ examined = EmptyVec
  /\ ticks = 0
  /\ entry_current = EmptyVec
  /\ entry_previous = EmptyVec
  /\ initial_count = Length(current_particles)
  /\ initial_ids = [i \in DOMAIN current_particles |-> current_particles[i].id]
  /\ fixed_time = 0
  /\ ticks_per_second = 60
  /\ frame = "begin"
  /\ ticks_at_frame = 0

\* App::update, lines 138-144: the frame time is added to fixed_time and
\* compared with the tick period
FrameBegin(elapsed) ==
  /\ frame = "begin"
  /\ fixed_time + elapsed <= MaxFixedTime
  /\ fixed_time' = fixed_time + elapsed
  /\ ticks_at_frame' = ticks
  /\ frame' = IF fixed_time + elapsed >= Period(ticks_per_second) THEN "tick" ELSE "ui"
  /\ UNCHANGED <<config, buffers, ts, pc, index_state, items, history,
                 ticks_per_second>>

\* lines 145-146: self.particles.update(1.0 / self.ticks_per_second)
HostTick ==
  /\ frame = "tick"
  /\ ticks = ticks_at_frame
  /\ Update(TickLength(ticks_per_second))

\* line 147, once update has returned
TickReturned ==
  /\ frame = "tick"
  /\ pc = "idle"
  /\ ticks = ticks_at_frame + 1
  /\ fixed_time' = fixed_time - Period(ticks_per_second)
  /\ frame' = "ui"
  /\ UNCHANGED <<config, buffers, ts, pc, index_state, items, history,
                 ticks_per_second, ticks_at_frame>>

\* the World Size value left as the user dragged it
Unclamped(dragged) == dragged

\* lines 204-207: world_size.max(particle_effect_radius * 2.0)
ClampWorldSize(dragged) == Max(dragged, particle_effect_radius * 2)

\* lines 199-228: the controls of the side panel
SidePanel(dragged, tps, slid) ==
  /\ frame = "ui"
  /\ world_size' = ClampWorldSize(dragged)
  /\ ticks_per_second' = tps
  /\ friction' = slid
  /\ frame' = "begin"
  /\ UNCHANGED <<id_count, attraction_matrix, force_scale,
                 min_attraction_percentage, particle_effect_radius, solid_walls,
                 gravity, buffers, ts, pc, index_state, items, history,
                 fixed_time, ticks_at_frame>>

HostNext ==
  \/ \E elapsed \in FrameTimes : FrameBegin(elapsed)
  \/ HostTick
  \/ \E i \in 0..(MaxN - 1) : CountItem(i)
  \/ PrefixSum
  \/ \E i \in 0..(MaxN - 1) : ScatterFetchSub(i)
  \/ \E i \in 0..(MaxN - 1) : ScatterStore(i)
  \/ Swap
  \/ \E i \in 0..(MaxN - 1) : ForceItem(i)
  \/ Finish
  \/ TickReturned
  \/ \E dragged \in WorldSizeValues \cup {world_size},
        tps \in TicksPerSecondValues,
        slid \in FrictionValues :
       SidePanel(dragged, tps, slid)

HostSpec == HostInit /\ [][HostNext]_vars

(* ------------------------------ claims -------------------------------- *)

\* the last call of update has returned
Returned == pc = "idle" /\ ticks > 0

\* the contract of section 3 on the snapshot of the last call
ValidConfiguration ==
  /\ world_size >= 2 * particle_effect_radius
  /\ Length(attraction_matrix) = id_count * id_count
  /\ \A i \in DOMAIN previous_particles : previous_particles[i].id < id_count

InsideDomain(position) ==
  \A axis \in 1..3 : 2 * Abs(position[axis]) <= world_size

RECURSIVE RefOthers(_, _, _)
\* the pairwise forces on particle i of every other particle from j on, for
\* the image of i at offset o
RefOthers(i, o, j) ==
  IF j \notin DOMAIN previous_particles THEN Zero3
  ELSE VAdd(IF j # i
              THEN Contribution(previous_particles[i], previous_particles[j], OffsetOf(o))
              ELSE Zero3,
            RefOthers(i, o, j + 1))

\* the brute-force reference: every other particle, every periodic image, once
BruteForce(i) ==
  Sum3(LAMBDA x : Sum3(LAMBDA y : Sum3(LAMBDA z : RefOthers(i, <<x, y, z>>, 0))))

\* C1: on a valid configuration with the particles inside the domain, the
\* total force one call accumulates for each particle equals the brute-force
\* sum over every other particle and every periodic image, each pair in range
\* counted once, and so does the velocity after the tick.
C1_GridMatchesBruteForce ==
  (/\ Returned
   /\ ValidConfiguration
   /\ \A i \in DOMAIN previous_particles : InsideDomain(previous_particles[i].position))
  => \A i \in DOMAIN previous_particles :
       /\ total_force[i] = BruteForce(i)
       /\ current_particles[i].velocity
            = Step(previous_particles[i], BruteForce(i)).velocity

\* C2: whenever update is not running, current_particles has the length it
\* had at construction: no call creates or destroys a particle.
C2_MassConservation ==
  pc = "idle" => Length(current_particles) = initial_count

C2_Witness ==
  /\ pc = "idle"
  /\ ticks >= 2
  /\ initial_count >= 2
  /\ ValidConfiguration
  /\ Length(current_particles) = 2

\* the array the index was built from: current_particles until the swap
Indexed == IF pc = "scatter" THEN current_particles ELSE previous_particles

\* every scatter item has stored its index
ScatterFinished == (pc = "scatter" /\ stored = WorkItems) \/ pc = "force"

\* the particles whose cell hashes to bucket b
Members(b) == { i \in DOMAIN Indexed : BucketOf(Indexed[i].position) = b }

\* C3: once the scatter pass has finished, under every interleaving, the
\* slice particle_indices[hash_table[b] .. hash_table[b+1]] of every bucket b
\* holds exactly the indices of the particles whose cell hashes to b.
C3_BucketSlices ==
  ScatterFinished =>
    \A b \in 0..(hash_table_length - 1) :
      LET slice == hash_table[b]..(hash_table[b + 1] - 1) IN
      /\ slice \subseteq DOMAIN particle_indices
      /\ { particle_indices[k] : k \in slice } = Members(b)
      /\ Cardinality(slice) = Cardinality(Members(b))

\* two particles share a bucket while another bucket is empty, and of two
\* neighboring slots of the shared bucket the lower one holds the lower index
C3_Witness ==
  /\ pc = "force"
  /\ \E b \in 0..(hash_table_length - 1) :
       /\ Cardinality(Members(b)) >= 2
       /\ \E k \in hash_table[b]..(hash_table[b + 1] - 2) :
            particle_indices[k] < particle_indices[k + 1]
  /\ \E b \in 0..(hash_table_length - 1) : Members(b) = {}

\* C4: every fetch_sub of the scatter pass returns a value >= 1, the slot
\* it claims lies in [0, N), no two particles claim the same slot, and after
\* the pass particle_indices is a permutation of 0..N-1.
C4_UniqueSlots ==
  /\ \A i \in DOMAIN fetched :
       /\ fetched[i] >= 1
       /\ fetched[i] - 1 \in 0..(hash_table_length - 1)
  /\ \A i, j \in DOMAIN fetched : i # j => fetched[i] # fetched[j]
  /\ ScatterFinished =>
       /\ { particle_indices[k] : k \in DOMAIN particle_indices } = DOMAIN Indexed
       /\ DOMAIN particle_indices = DOMAIN Indexed

\* two items of one bucket have both claimed a slot, and the pass has finished
C4_Witness ==
  /\ pc = "scatter"
  /\ stored = WorkItems
  /\ \E i, j \in DOMAIN fetched :
       /\ i < j
       /\ BucketOf(current_particles[i].position) = BucketOf(current_particles[j].position)
       /\ fetched[i] > fetched[j]

\* hash(cell) % hash_table_length, after the call has returned
RefBucket(cell) == hash(cell) % Length(previous_particles)

\* how often the 27 cells around the image of particle i at offset o hash to
\* the bucket of particle j: a function of the snapshot alone
RefExamined(i, o, j) ==
  Cardinality({ t \in Triples :
    RefBucket(VAdd(cell_coord(VAdd(previous_particles[i].position, OffsetOf(o))), t))
      = RefBucket(cell_coord(previous_particles[j].position)) })

RECURSIVE RefCandidates(_, _, _)
\* what the candidates from j on add for the image of particle i at offset o
RefCandidates(i, o, j) ==
  IF j \notin DOMAIN previous_particles THEN Zero3
  ELSE VAdd(IF InRange(previous_particles[i], previous_particles[j], OffsetOf(o))
              THEN VTimes(Contribution(previous_particles[i], previous_particles[j],
                                       OffsetOf(o)),
                          RefExamined(i, o, j))
              ELSE Zero3,
            RefCandidates(i, o, j + 1))

\* the total force of particle i as a function of the snapshot alone
RefTotal(i) ==
  Sum3(LAMBDA x : Sum3(LAMBDA y : Sum3(LAMBDA z : RefCandidates(i, <<x, y, z>>, 0))))

C6_FailFast ==
  [][(pc = "idle" /\ world_size < 2 * particle_effect_radius)
       => (pc' = "panicked" /\ UNCHANGED <<buffers, index_state, items>>)]_vars

C6_Witness ==
  /\ pc = "panicked"
  /\ world_size < 2 * particle_effect_radius
  /\ Length(current_particles) >= 1
  /\ current_particles = entry_current
  /\ previous_particles = entry_previous

\* C7: when attraction_matrix.len() # id_count^2 or a particle has a type
\* id >= id_count, no call of update returns.
C7_RefusesBadConfiguration ==
  (\/ Length(attraction_matrix) # id_count * id_count
   \/ \E i \in DOMAIN entry_current : entry_current[i].id >= id_count)
  => ~Returned

\* C8: a call either returns with every particle of the new snapshot
\* written, or traps with both buffers as they were when it was entered.
C8_TickAtomic ==
  /\ pc = "panicked" =>
       current_particles = entry_current /\ previous_particles = entry_previous
  /\ Returned => DOMAIN current_particles = DOMAIN entry_current

\* C9: with zero particles a call runs no work item (so no modulo by the
\* table length and no indexing), does not trap, and leaves current_particles
\* empty.
C9_ZeroParticles ==
  (initial_count = 0 /\ world_size >= 2 * particle_effect_radius)
  => /\ pc # "panicked"
     /\ current_particles = EmptyVec
     /\ counted = {}
     /\ DOMAIN fetched = {}
     /\ DOMAIN collected = {}

C9_Witness ==
  initial_count = 0 /\ world_size >= 2 * particle_effect_radius /\ Returned

\* the position component of particle i after position += velocity * ts
Integrated(i, axis) ==
  previous_particles[i].position[axis] + FMul(current_particles[i].velocity[axis], ts)

\* C10: in periodic mode, on each axis, an integrated component above
\* world_size/2 comes out as the component minus world_size, one below
\* -world_size/2 as the component plus world_size, any other unchanged; the
\* velocity is the damped velocity, untouched by the wrap.
C10_PeriodicWrap ==
  (Returned /\ ~solid_walls) =>
    \A i \in DOMAIN previous_particles :
      /\ \A axis \in 1..3 :
           current_particles[i].position[axis] =
             IF 2 * Integrated(i, axis) > world_size
               THEN Integrated(i, axis) - world_size
             ELSE IF 2 * Integrated(i, axis) < -world_size
               THEN Integrated(i, axis) + world_size
             ELSE Integrated(i, axis)
      /\ current_particles[i].velocity
           = UpdateVelocity(previous_particles[i].velocity, total_force[i])

\* one particle left through an upper face and one through a lower face
C10_Witness ==
  /\ Returned
  /\ ~solid_walls
  /\ \E i \in DOMAIN previous_particles, axis \in 1..3 :
       2 * Integrated(i, axis) > world_size
  /\ \E i \in DOMAIN previous_particles, axis \in 1..3 :
       2 * Integrated(i, axis) < -world_size

\* the particle of the last snapshot at index i
Prev(i) == previous_particles[i]

\* no other particle, and no periodic image of one, passes the distance test
\* of particle i
Isolated(i) ==
  \A j \in DOMAIN previous_particles \ {i}, o \in Triples :
    ~InRange(Prev(i), Prev(j), OffsetOf(o))

\* C11: when world_size >= 2 * particle_effect_radius, a particle is not
\* accepted as its own neighbor at offset 0 nor at any of its 26 periodic
\* images; a particle with no other particle in range (images included) has
\* total_force zero; and a particle at the very position of another adds
\* nothing to its force.
C11_NoSelfInteraction ==
  (Returned /\ world_size >= 2 * particle_effect_radius) =>
    \A i \in DOMAIN previous_particles :
      /\ \A o \in Triples :
           /\ ~InRange(Prev(i), Prev(i), OffsetOf(o))
           /\ Contribution(Prev(i), Prev(i), OffsetOf(o)) = Zero3
      /\ Isolated(i) => total_force[i] = Zero3
      /\ \A j \in DOMAIN previous_particles :
           Prev(j).position = Prev(i).position =>
             \A o \in Triples : Contribution(Prev(i), Prev(j), OffsetOf(o)) = Zero3

\* two particles at one position: each was handed itself and the other at
\* offset 0, and neither got any force
C11_Witness ==
  /\ Returned
  /\ world_size >= 2 * particle_effect_radius
  /\ \E i, j \in DOMAIN previous_particles :
       /\ i # j
       /\ Prev(i).position = Prev(j).position
       /\ examined[i][Key(<<0, 0, 0>>, i)] >= 1
       /\ examined[i][Key(<<0, 0, 0>>, j)] >= 1
       /\ total_force[i] = Zero3

\* C12: for a single particle with gravity zero and friction * ts >= 0, in
\* periodic mode and with solid walls, the squared velocity magnitude after a
\* tick is never greater than the one before the tick.
C12_SpeedNeverGrows ==
  (/\ Returned
   /\ Length(previous_particles) = 1
   /\ gravity = Zero3
   /\ friction * ts >= 0)
  => magnitude2(current_particles[0].velocity) <= magnitude2(Prev(0).velocity)

\* the force law of section 4.2 on a normalized distance r, with
\* beta = min_attraction_percentage
Law(r, attraction) ==
  IF r < min_attraction_percentage
    THEN FDiv(r, min_attraction_percentage) - Scale
  ELSE IF r < Scale
    THEN FMul(attraction,
              Scale - FDiv(Abs(2 * r - Scale - min_attraction_percentage),
                           Scale - min_attraction_percentage))
  ELSE 0

\* what a neighbor at relative position rel adds when the law is evaluated on
\* distance / unit with the given coefficient
PairForce(rel, unit, attraction) ==
  LET distance == Sqrt(magnitude2(rel)) IN
  VMul(VDiv(rel, distance), Law(FDiv(distance, unit), attraction))

RECURSIVE RefLaw(_, _, _, _)
\* what the candidates from j on add to the force on particle i for its image
\* at offset o: each accepted candidate as often as it is examined, with the
\* coefficient of row Prev(i).id and column Prev(j).id
RefLaw(i, o, j, unit) ==
  IF j \notin DOMAIN previous_particles THEN Zero3
  ELSE VAdd(IF InRange(Prev(i), Prev(j), OffsetOf(o))
              THEN VTimes(PairForce(relative_position(Prev(i), Prev(j), OffsetOf(o)),
                                    unit,
                                    attraction_matrix[Prev(i).id * id_count + Prev(j).id]),
                          RefExamined(i, o, j))
              ELSE Zero3,
            RefLaw(i, o, j + 1, unit))

\* the sum of RefLaw over the 27 offsets
RefLawTotal(i, unit) ==
  Sum3(LAMBDA x : Sum3(LAMBDA y : Sum3(LAMBDA z : RefLaw(i, <<x, y, z>>, 0, unit))))

\* particles i and j are of different types whose two matrix entries differ,
\* and are in the signed lobe range of each other
AsymmetricPair(i, j) ==
  /\ Prev(i).id # Prev(j).id
  /\ attraction_matrix[Prev(i).id * id_count + Prev(j).id]
       # attraction_matrix[Prev(j).id * id_count + Prev(i).id]
  /\ InRange(Prev(i), Prev(j), Zero3)
  /\ LET distance == Sqrt(magnitude2(VSub(Prev(j).position, Prev(i).position))) IN
     min_attraction_percentage < distance /\ distance < Scale

Damped(i) == UpdateVelocity(Prev(i).velocity, total_force[i])

\* the position component of particle i after position += velocity * ts with
\* that velocity
Moved(i, axis) == Prev(i).position[axis] + FMul(Damped(i)[axis], ts)

\* C14: with solid walls, on each axis on its own: a component moved beyond
\* the +face becomes +world_size/2 and the velocity of that axis min(itself, 0);
\* one moved beyond the -face becomes -world_size/2 and its velocity
\* max(itself, 0); otherwise both are left alone. No other axis is read.
C14_SolidWallsPerAxis ==
  (Returned /\ solid_walls) =>
    \A i \in DOMAIN previous_particles, axis \in 1..3 :
      /\ current_particles[i].position[axis] =
           IF Moved(i, axis) > HalfWorld THEN HalfWorld
           ELSE IF Moved(i, axis) < -HalfWorld THEN -HalfWorld
           ELSE Moved(i, axis)
      /\ current_particles[i].velocity[axis] =
           IF Moved(i, axis) > HalfWorld THEN Min(Damped(i)[axis], 0)
           ELSE IF Moved(i, axis) < -HalfWorld THEN Max(Damped(i)[axis], 0)
           ELSE Damped(i)[axis]

\* C15: on a valid configuration every accepted neighbor at distance d adds
\* the force law evaluated on r = d / particle_effect_radius, whatever
\* particle_effect_radius is: the total force of each particle is the sum of
\* Law(d / particle_effect_radius) over the candidates the tick accepted.
C15_LawOnNormalizedDistance ==
  (Returned /\ ValidConfiguration) =>
    \A i \in DOMAIN previous_particles :
      total_force[i] = RefLawTotal(i, particle_effect_radius)

\* the cell of particle j is one of the 27 cells around the cell of the
\* image of particle i at offset o
AmongNeighborCells(i, o, j) ==
  \E t \in Triples :
    cell_coord(Prev(j).position)
      = VAdd(cell_coord(VAdd(Prev(i).position, OffsetOf(o))), t)

\* C16: on a valid configuration with the particles inside the domain, a
\* neighbor within particle_effect_radius of the image of a particle at some
\* periodic offset lies in one of the 27 cells around the cell of that image
\* and is handed to the distance test at least once for that offset.
C16_SearchComplete ==
  (/\ Returned
   /\ world_size >= 2 * particle_effect_radius
   /\ \A i \in DOMAIN previous_particles : InsideDomain(Prev(i).position))
  => \A i, j \in DOMAIN previous_particles, o \in Triples :
       magnitude2(VSub(Prev(j).position, VAdd(Prev(i).position, OffsetOf(o))))
         < particle_effect_radius * particle_effect_radius
       => /\ AmongNeighborCells(i, o, j)
          /\ examined[i][Key(o, j)] >= 1

\* two particles in range of each other only across the periodic boundary,
\* in different cells and different buckets, one of negative coordinates
C16_Witness ==
  /\ Returned
  /\ world_size >= 2 * particle_effect_radius
  /\ \E i, j \in DOMAIN previous_particles, o \in Triples :
       /\ o # <<0, 0, 0>>
       /\ InsideDomain(Prev(i).position)
       /\ InsideDomain(Prev(j).position)
       /\ Prev(j).position[1] < 0
       /\ InRange(Prev(i), Prev(j), OffsetOf(o))
       /\ cell_coord(Prev(j).position)
            # cell_coord(VAdd(Prev(i).position, OffsetOf(o)))
       /\ RefBucket(cell_coord(Prev(j).position))
            # RefBucket(cell_coord(VAdd(Prev(i).position, OffsetOf(o))))
       /\ examined[i][Key(o, j)] >= 1

\* C17: for one particle and one periodic offset no neighbor index is handed
\* to the distance test more than once, whatever buckets the 27 neighboring
\* cells hash to.
C17_NoCandidateTwice ==
  Returned =>
    \A i, j \in DOMAIN previous_particles, o \in Triples :
      examined[i][Key(o, j)] <= 1

\* the prefix sum has run: the last entry of hash_table, which no particle's
\* bucket ever indexes, holds the number of particles
Scanned == hash_table[hash_table_length] = Length(Indexed)

\* C18: the passes of a tick are separated by barriers: a scatter item has
\* done its fetch_sub only if every count item and the prefix sum have
\* finished; the buffers are swapped, and a force item has read the index,
\* only if every scatter item has stored its index.
C18_PassesOrdered ==
  /\ pc = "scatter" => counted = DOMAIN Indexed /\ Scanned
  /\ DOMAIN fetched # {} => counted = DOMAIN Indexed /\ Scanned
  /\ pc = "force" => stored = DOMAIN Indexed /\ DOMAIN fetched = DOMAIN Indexed
  /\ DOMAIN collected # {} => stored = DOMAIN Indexed

\* a force item has run in a tick of two particles while the other has not
C18_Witness ==
  /\ pc = "force"
  /\ Length(previous_particles) = 2
  /\ Cardinality(DOMAIN collected) = 1
  /\ stored = {0, 1}
  /\ counted = {0, 1}

\* C19: a tick never modifies the snapshot it was given: during the count,
\* prefix-sum and scatter passes current_particles is the array the call was
\* entered with, during the force pass and after the return
\* previous_particles is that array, element by element and in order.
C19_SnapshotFrozen ==
  /\ pc \in {"count", "scatter"} => current_particles = entry_current
  /\ pc = "force" => previous_particles = entry_current
  /\ Returned => previous_particles = entry_current

\* the second tick of two particles has returned and moved a particle
C19_Witness ==
  /\ Returned
  /\ ticks = 2
  /\ Length(previous_particles) = 2
  /\ previous_particles = entry_current
  /\ entry_previous # EmptyVec
  /\ current_particles # previous_particles

\* C20: after a tick on a valid configuration that was entered with every
\* particle inside the domain, every particle is inside the domain, in
\* periodic mode and with solid walls alike.
C20_StaysInDomain ==
  (/\ Returned
   /\ ValidConfiguration
   /\ \A i \in DOMAIN previous_particles : InsideDomain(Prev(i).position))
  => \A i \in DOMAIN current_particles : InsideDomain(current_particles[i].position)

\* the periodic offsets at which particle j is closer than
\* particle_effect_radius to the image of particle i
ImagesWithin(i, j) ==
  { o \in Triples :
      magnitude2(VSub(Prev(j).position, VAdd(Prev(i).position, OffsetOf(o))))
        < particle_effect_radius * particle_effect_radius }

\* C21: in a tick that passed the assertion world_size >= 2 *
\* particle_effect_radius, for every ordered pair of particles inside the
\* domain at most one of the 27 periodic offsets gives a distance below
\* particle_effect_radius, so at most one image of a neighbor is accepted.
C21_OneImageAtMost ==
  Returned =>
    \A i, j \in DOMAIN previous_particles :
      (InsideDomain(Prev(i).position) /\ InsideDomain(Prev(j).position))
      => /\ Cardinality(ImagesWithin(i, j)) <= 1
         /\ Cardinality({ o \in Triples : /\ examined[i][Key(o, j)] >= 1
                                          /\ InRange(Prev(i), Prev(j), OffsetOf(o)) }) <= 1

\* with world_size = 2 * particle_effect_radius, a neighbor is in range
\* through exactly one image, which is not the one at offset 0
C21_Witness ==
  /\ Returned
  /\ world_size = 2 * particle_effect_radius
  /\ \E i, j \in DOMAIN previous_particles :
       /\ i # j
       /\ InsideDomain(Prev(i).position)
       /\ InsideDomain(Prev(j).position)
       /\ Cardinality(ImagesWithin(i, j)) = 1
       /\ <<0, 0, 0>> \notin ImagesWithin(i, j)
       /\ \E o \in ImagesWithin(i, j) : examined[i][Key(o, j)] >= 1

\* floor(position / particle_effect_radius) on each axis
FloorCell(v) ==
  << v[1] \div particle_effect_radius,
     v[2] \div particle_effect_radius,
     v[3] \div particle_effect_radius >>

\* C22: the cell the index files a particle under is
\* floor(position / particle_effect_radius) on each axis, for negative
\* coordinates too: a position in (-particle_effect_radius, 0) is in cell -1.
C22_CellIsFloor ==
  pc = "count" =>
    \A i \in counted :
      cell_coord(current_particles[i].position)
        = FloorCell(current_particles[i].position)

\* the velocity of particle i after the force and the gravity were added
Accelerated(i) ==
  VAdd(VAdd(Prev(i).velocity,
            VMul(VMul(VMul(total_force[i], force_scale), particle_effect_radius), ts)),
       VMul(gravity, ts))

\* that velocity times friction * ts
Delta(i) == VMul(VMul(Accelerated(i), friction), ts)

\* the velocity after the damping that follows
AfterDamping(i) ==
  IF magnitude2(Delta(i)) > magnitude2(Accelerated(i))
    THEN Zero3
    ELSE VSub(Accelerated(i), Delta(i))

\* C23: the new particle is obtained in this order: the force term
\* total_force * force_scale * particle_effect_radius * ts is added to the
\* velocity, then gravity * ts, then the damping is applied, then the position
\* is advanced by the damped velocity * ts, then the boundary policy is
\* applied; where no face is crossed the new position is the old one plus the
\* damped velocity * ts.
C23_StepOrder ==
  Returned =>
    \A i \in DOMAIN previous_particles :
      /\ current_particles[i]
           = UpdatePosition([Prev(i) EXCEPT !.velocity = AfterDamping(i)])
      /\ \A axis \in 1..3 :
           LET advanced == Prev(i).position[axis] + FMul(AfterDamping(i)[axis], ts) IN
           (2 * advanced <= world_size /\ 2 * advanced >= -world_size)
             => current_particles[i].position[axis] = advanced

\* a particle at rest got a force and gravity, and moved within the domain
C23_Witness ==
  /\ Returned
  /\ gravity # Zero3
  /\ \E i \in DOMAIN previous_particles :
       /\ Prev(i).velocity = Zero3
       /\ total_force[i] # Zero3
       /\ total_force[i][2] = 0
       /\ AfterDamping(i)[1] # 0
       /\ AfterDamping(i)[2] # 0
       /\ AfterDamping(i) # Accelerated(i)
       /\ current_particles[i].position = VAdd(Prev(i).position, VMul(AfterDamping(i), ts))
       /\ current_particles[i].position # Prev(i).position

\* C24: the velocity after damping is zero when |delta|^2 > |velocity|^2 and
\* velocity - delta otherwise, with delta = velocity * friction * ts; no
\* component of it has the sign opposite to the one before damping (seen in
\* periodic mode, where the boundary policy leaves the velocity alone).
C24_DampingNeverReverses ==
  (Returned /\ ~solid_walls) =>
    \A i \in DOMAIN previous_particles :
      /\ current_particles[i].velocity =
           IF magnitude2(Delta(i)) > magnitude2(Accelerated(i))
             THEN Zero3
             ELSE VSub(Accelerated(i), Delta(i))
      /\ \A axis \in 1..3 :
           /\ current_particles[i].velocity[axis] * Accelerated(i)[axis] >= 0
           /\ Accelerated(i)[axis] = 0 => current_particles[i].velocity[axis] = 0

\* friction * ts = 1.5 on a moving particle: the velocity was zeroed
C24_Witness ==
  /\ Returned
  /\ ~solid_walls
  /\ friction * ts > Scale * Scale
  /\ \E i \in DOMAIN previous_particles :
       /\ Accelerated(i)[1] > 0
       /\ Accelerated(i)[2] < 0
       /\ magnitude2(Delta(i)) > magnitude2(Accelerated(i))
       /\ current_particles[i].velocity = Zero3

\* C25: whenever update is not running, slot i of current_particles holds a
\* particle of the type slot i had at construction; and after a tick slot i
\* holds the particle computed from slot i of the previous snapshot.
C25_SlotsAndTypesKept ==
  /\ pc = "idle" =>
       /\ DOMAIN current_particles = DOMAIN initial_ids
       /\ \A i \in DOMAIN current_particles : current_particles[i].id = initial_ids[i]
  /\ Returned =>
       \A i \in DOMAIN previous_particles :
         /\ current_particles[i] = Step(Prev(i), total_force[i])
         /\ current_particles[i].id = Prev(i).id

\* two particles of different types after two ticks, one of them moved
C25_Witness ==
  /\ Returned
  /\ ticks = 2
  /\ Length(current_particles) = 2
  /\ initial_ids[0] # initial_ids[1]
  /\ current_particles[0].id = initial_ids[0]
  /\ current_particles[1].id = initial_ids[1]
  /\ \E i \in DOMAIN current_particles :
       current_particles[i].position # Prev(i).position

\* C26: in the host application world_size >= 2 * particle_effect_radius at
\* every call of Particles::update, so the assertion never fires; a frame
\* runs at most one tick, with ts = 1 / ticks_per_second, and only when the
\* accumulated time is at least one tick period.
C26_HostKeepsPrecondition ==
  /\ pc # "panicked"
  /\ world_size >= 2 * particle_effect_radius
  /\ ticks <= ticks_at_frame + 1
  /\ pc # "idle" =>
       /\ frame = "tick"
       /\ ticks = ticks_at_frame
       /\ ts = TickLength(ticks_per_second)
       /\ fixed_time >= Period(ticks_per_second)

\* a tick has run after World Size was dragged below 2 * particle_effect_radius
C26_Witness ==
  /\ frame = "ui"
  /\ pc = "idle"
  /\ ticks = ticks_at_frame + 1
  /\ ticks = 2
  /\ world_size = 2 * particle_effect_radius
  /\ current_particles # HostParticles

====
